---- MODULE Spec2Model ----
(***************************************************************************)
(* kho/byteblock: a framing format of (length, offset, padding, payload)   *)
(* blocks.  ByteBlockWriter emits frames to an io.Writer; ByteBlockSlicer  *)
(* cuts them back out of a byte slice.                                     *)
(*                                                                         *)
(* A byte is a number in 0..255.  An int64 is its two's complement         *)
(* representation as four 16-bit digits, least significant first, so that  *)
(* the arithmetic wraps at 64 bits as Go's does.  Counters that only ever  *)
(* count bytes of the bounded sink are kept as plain integers.             *)
(***************************************************************************)
EXTENDS Integers, Sequences, FiniteSets, TLC

\* ------------------------------------------------------------------ bounds

\* A writer operation starts only while numBytesWritten <= MaxWritten.
MaxWritten == 24
\* A slicer is asked for at most MaxSlices blocks.
MaxSlices == 3

\* ------------------------------------------------------------------ int64

\* One digit of an int64 holds 16 bits.
Base == 256 * 256

\* The four digits of v mod 2^64, for an integer v that TLC can hold:
\* int64(v).  (\div and % round down, so a negative v sign-extends.)
RECURSIVE Digits(_, _)
Digits(v, k) == IF k = 0 THEN <<>> ELSE <<v % Base>> \o Digits(v \div Base, k - 1)

Int64(v) == Digits(v, 4)

IsNeg64(a) == a[4] >= Base \div 2

\* a + b on int64: the carry out of the top digit is dropped (Go wraps).
RECURSIVE AddFrom(_, _, _, _)
AddFrom(a, b, i, c) ==
  IF i > 4 THEN <<>>
  ELSE LET s == a[i] + b[i] + c
       IN  <<s % Base>> \o AddFrom(a, b, i + 1, s \div Base)

Add64(a, b) == AddFrom(a, b, 1, 0)

\* Unsigned comparison from digit i down.
RECURSIVE LtFrom(_, _, _)
LtFrom(a, b, i) ==
  IF i = 0 THEN FALSE
  ELSE IF a[i] # b[i] THEN a[i] < b[i]
  ELSE LtFrom(a, b, i - 1)

\* a < b on int64 (signed).
Lt64(a, b) ==
  IF IsNeg64(a) # IsNeg64(b) THEN IsNeg64(a)
  ELSE LtFrom(a, b, 4)

\* a > b on int64 (signed).
Gt64(a, b) == Lt64(b, a)

\* The value of an int64 known to lie in 0 .. 2^30 - 1.
ToNat(a) == a[1] + a[2] * Base

\* byte(n): the low 8 bits.
ByteOf(n) == n[1] % 256

\* n >> 8 on int64: arithmetic, the sign fills the top 8 bits.
Shr8(n) ==
  LET top == IF IsNeg64(n) THEN 255 ELSE 0
  IN  << n[1] \div 256 + (n[2] % 256) * 256,
         n[2] \div 256 + (n[3] % 256) * 256,
         n[3] \div 256 + (n[4] % 256) * 256,
         n[4] \div 256 + top * 256 >>

\* The digit i of n moved up by d digits.
Up(n, i, d) == IF i - d >= 1 THEN n[i - d] ELSE 0

\* n << k on int64, k = 0, 8, ..., 56: the bits shifted past bit 63 are
\* dropped.
Shl64(n, k) ==
  LET d == k \div 16
      m == IF k % 16 = 0 THEN 1 ELSE 256
      lo(i) == (Up(n, i, d) * m) % Base
      hi(i) == (Up(n, i, d + 1) * m) \div Base
  IN  << lo(1) + hi(1), lo(2) + hi(2), lo(3) + hi(3), lo(4) + hi(4) >>

\* a | b on two digits, bit by bit.
RECURSIVE Or16(_, _)
Or16(a, b) ==
  IF a = 0 THEN b
  ELSE IF b = 0 THEN a
  ELSE (IF a % 2 = 1 \/ b % 2 = 1 THEN 1 ELSE 0) + 2 * Or16(a \div 2, b \div 2)

\* a | b on int64.
Or64(a, b) == << Or16(a[1], b[1]), Or16(a[2], b[2]), Or16(a[3], b[3]), Or16(a[4], b[4]) >>

\* ------------------------------------------------------------------ codec

\* fillInt64(n, out): out[i] = byte(n); n >>= 8, for i = 0..7.
RECURSIVE fillLoop(_, _, _)
fillLoop(n, i, out) ==
  IF i >= 8 THEN out
  ELSE fillLoop(Shr8(n), i + 1, [out EXCEPT ![i + 1] = ByteOf(n)])

\* fillInt64 that stores the most significant byte first.
fillInt64BigEndian(n) ==
  LET le == fillLoop(n, 0, <<0, 0, 0, 0, 0, 0, 0, 0>>)
  IN  [i \in 1..8 |-> le[9 - i]]

fillInt64(n) == fillLoop(n, 0, <<0, 0, 0, 0, 0, 0, 0, 0>>)

\* readInt64(data): n |= int64(data[i]) << uint(8*i), for i = 0..7.
RECURSIVE readLoop(_, _, _)
readLoop(data, i, n) ==
  IF i >= 8 THEN n
  ELSE readLoop(data, i + 1, Or64(n, Shl64(Int64(data[i + 1]), 8 * i)))

readInt64(data) == readLoop(data, 0, Int64(0))

\* ------------------------------------------------------------------ aligner

\* alignOffset that returns what pos is past a multiple of align, not what
\* it is short of the next.
alignOffsetPast(align, pos) ==
  IF align <= 1 THEN 0 ELSE pos % align

\* alignOffset without the test for a position that is aligned already.
alignOffsetFull(align, pos) ==
  IF align <= 1 THEN 0 ELSE align - (pos % align)

\* a % b as Go computes it for b > 0: the remainder has the sign of a.
Rem(a, b) == IF a >= 0 THEN a % b ELSE 0 - ((0 - a) % b)

\* alignOffset(align, pos): the padding that brings pos to a multiple of align.
alignOffset(align, pos) ==
  IF align <= 1 THEN 0
  ELSE LET offset == Rem(pos, align)
       IN  IF offset = 0 THEN 0 ELSE align - offset

\* ------------------------------------------------------------------ errors

Nil == "nil"
ErrNewBlockBeforeFinish == "creating new block before finishing the previous one"
ErrWriteMoreThanRequested == "writing more bytes than requested"
ErrNotEnoughBytes == "not enough bytes"
EOF == "EOF"

\* ------------------------------------------------------------------ sink

\* How the io.Writer behaves during one writer operation: NoFail accepts
\* every write whole; otherwise its call-th Write of the operation accepts
\* n bytes of the data (n < 0: every byte) and returns err.  A Write that
\* accepts fewer bytes than given returns an error (io.Writer's contract).
NoFail == [call |-> 0, n |-> -1, err |-> Nil]

\* The failures tried: the call-th Write takes one byte at most and reports a
\* short write, the first Write takes nothing from a closed pipe, or the
\* fourth takes every byte and still reports an error.
SinkScripts ==
  {NoFail} \cup [call : 1..4, n : {1}, err : {"short write"}]
           \cup {[call |-> 1, n |-> 0, err |-> "closed pipe"],
                 [call |-> 4, n |-> -1, err |-> "disk quota"]}

Min(a, b) == IF a < b THEN a ELSE b

\* writer.Write(data), the idx-th call of the operation: (n, err).
SinkWrite(data, idx, io) ==
  IF io.call = idx
    THEN [n |-> IF io.n < 0 THEN Len(data) ELSE Min(io.n, Len(data)), err |-> io.err]
    ELSE [n |-> Len(data), err |-> Nil]

Zeros(n) == [i \in 1..n |-> 0]

\* ------------------------------------------------------------------ writer
\* A writer is [sink, numBytesWritten, numBytesLeft, err, stub] with two
\* fields that record the operation in progress: calls, the sink Writes made
\* so far by it, and ret, the error last returned.

NewByteBlockWriter ==
  [sink |-> <<>>, numBytesWritten |-> 0, numBytesLeft |-> 0, err |-> Nil,
   stub |-> Zeros(8), calls |-> 0, ret |-> Nil]

\* w.fillStub(n)
fillStub(w, n) == [w EXCEPT !.stub = fillInt64(Int64(n))]

\* rawWrite that counts the bytes it was given, not the bytes the sink took.
rawWriteWhole(w, data, io) ==
  LET out == SinkWrite(data, w.calls + 1, io)
  IN  [w EXCEPT !.sink = @ \o SubSeq(data, 1, out.n),
                !.numBytesWritten = @ + Len(data),
                !.numBytesLeft = @ - Len(data),
                !.calls = @ + 1,
                !.ret = out.err]

\* w.rawWrite(data): the error comes back in ret.
rawWrite(w, data, io) ==
  LET out == SinkWrite(data, w.calls + 1, io)
  IN  [w EXCEPT !.sink = @ \o SubSeq(data, 1, out.n),
                !.numBytesWritten = @ + out.n,
                !.numBytesLeft = @ - out.n,
                !.calls = @ + 1,
                !.ret = out.err]

\* w.err = <the error just returned>
Latch(w) == [w EXCEPT !.err = w.ret]

Return(w, e) == [w EXCEPT !.ret = e]

\* The stub written as the last call left it, not filled with n.
writeStubStale(w, n, io) == Latch(rawWrite(w, w.stub, io))

\* w.fillStub(n); w.err = w.rawWrite(w.stub[:])
writeStub(w, n, io) ==
  LET s == fillStub(w, n)
  IN  Latch(rawWrite(s, s.stub, io))

\* NewBlock without the test for an unfinished block.
NewBlockNoGuard(w, align, length, io) ==
  IF w.err # Nil THEN Return(w, w.err)
  ELSE
    LET a == writeStub(w, length, io)
    IN  IF a.err # Nil THEN a
    ELSE
    LET offset == alignOffset(align, a.numBytesWritten + 8)
        b == writeStub(a, offset, io)
    IN  IF b.err # Nil THEN b
    ELSE
    LET c == Latch(rawWrite(b, Zeros(offset), io))
    IN  IF c.err # Nil THEN c
    ELSE Return([c EXCEPT !.numBytesLeft = length], Nil)

\* NewBlock that returns ErrNewBlockBeforeFinish without storing it in w.err.
NewBlockNoLatch(w, align, length, io) ==
  IF w.err # Nil THEN Return(w, w.err)
  ELSE IF w.numBytesLeft > 0 THEN Return(w, ErrNewBlockBeforeFinish)
  ELSE
    LET a == writeStub(w, length, io)
    IN  IF a.err # Nil THEN a
    ELSE
    LET offset == alignOffset(align, a.numBytesWritten + 8)
        b == writeStub(a, offset, io)
    IN  IF b.err # Nil THEN b
    ELSE
    LET c == Latch(rawWrite(b, Zeros(offset), io))
    IN  IF c.err # Nil THEN c
    ELSE Return([c EXCEPT !.numBytesLeft = length], Nil)

NewBlock(w, align, length, io) ==
  IF w.err # Nil THEN Return(w, w.err)
  ELSE IF w.numBytesLeft > 0
    THEN Return([w EXCEPT !.err = ErrNewBlockBeforeFinish], ErrNewBlockBeforeFinish)
  ELSE
    \* Length
    LET a == writeStub(w, length, io)
    IN  IF a.err # Nil THEN a
    ELSE
    \* Offset
    LET offset == alignOffset(align, a.numBytesWritten + 8)
        b == writeStub(a, offset, io)
    IN  IF b.err # Nil THEN b
    ELSE
    \* Padding
    LET c == Latch(rawWrite(b, Zeros(offset), io))
    IN  IF c.err # Nil THEN c
    ELSE Return([c EXCEPT !.numBytesLeft = length], Nil)

\* Append without the test of w.err.
AppendUnlatched(w, data, io) ==
  IF Len(data) > w.numBytesLeft
    THEN Return([w EXCEPT !.err = ErrWriteMoreThanRequested], ErrWriteMoreThanRequested)
  ELSE Latch(rawWrite(w, data, io))

\* Append that writes the bytes that still fit before it rejects the chunk.
AppendPartial(w, data, io) ==
  IF w.err # Nil THEN Return(w, w.err)
  ELSE IF Len(data) > w.numBytesLeft
    THEN LET a == rawWrite(w, SubSeq(data, 1, w.numBytesLeft), io)
         IN  Return([a EXCEPT !.err = ErrWriteMoreThanRequested], ErrWriteMoreThanRequested)
  ELSE Latch(rawWrite(w, data, io))

\* Append(data); Sequences already defines Append.
AppendData(w, data, io) ==
  IF w.err # Nil THEN Return(w, w.err)
  ELSE IF Len(data) > w.numBytesLeft
    THEN Return([w EXCEPT !.err = ErrWriteMoreThanRequested], ErrWriteMoreThanRequested)
  ELSE Latch(rawWrite(w, data, io))

\* AppendString(data): Append of the string's own bytes, aliased, not copied.
AppendString(w, data, io) == AppendData(w, data, io)

Write(w, data, align, io) ==
  LET a == Latch(NewBlock(w, align, Len(data), io))
  IN  IF a.err # Nil THEN a
      ELSE Latch(AppendData(a, data, io))

WriteString(w, data, align, io) ==
  LET a == Latch(NewBlock(w, align, Len(data), io))
  IN  IF a.err # Nil THEN a
      ELSE Latch(AppendString(a, data, io))

\* ------------------------------------------------------------------ writer of byteblock.go
\* The one-shot writer: [sink, numBytesWritten, err, stub] and calls, ret.

NewByteBlockWriterMono ==
  [sink |-> <<>>, numBytesWritten |-> 0, err |-> Nil,
   stub |-> Zeros(8), calls |-> 0, ret |-> Nil]

rawWriteMono(w, data, io) ==
  LET out == SinkWrite(data, w.calls + 1, io)
  IN  [w EXCEPT !.sink = @ \o SubSeq(data, 1, out.n),
                !.numBytesWritten = @ + out.n,
                !.calls = @ + 1,
                !.ret = out.err]

writeStubMono(w, n, io) ==
  LET s == fillStub(w, n)
  IN  Latch(rawWriteMono(s, s.stub, io))

WriteMono(w, data, align, io) ==
  IF w.err # Nil THEN Return(w, w.err)
  ELSE
    \* Length
    LET a == writeStubMono(w, Len(data), io)
    IN  IF a.err # Nil THEN a
    ELSE
    \* Offset
    LET offset == alignOffset(align, a.numBytesWritten + 8)
        b == writeStubMono(a, offset, io)
    IN  IF b.err # Nil THEN b
    ELSE
    \* Padding
    LET c == Latch(rawWriteMono(b, Zeros(offset), io))
    IN  IF c.err # Nil THEN c
    ELSE
    \* Data
    LET d == Latch(rawWriteMono(c, data, io))
    IN  IF d.err # Nil THEN d ELSE Return(d, Nil)

\* ------------------------------------------------------------------ slicer
\* A slicer is [data, numBytesSliced, err].  A call's outcome is
\* [r, lo, hi, err]: the slicer after it, the view data[lo:hi] it returns
\* (lo = hi = -1: the nil slice) and the error; err = Panic when the call
\* does not return because the slice expression panics.

Panic == "panic: slice bounds out of range"

NewByteBlockSlicer(data) == [data |-> data, numBytesSliced |-> 0, err |-> Nil]

NilView(r, e) == [r |-> r, lo |-> -1, hi |-> -1, err |-> e]

\* rawSlice that returns the view and leaves the cursor where it was.
rawSliceStay(r, n) ==
  LET cur == Int64(r.numBytesSliced)
      end == Add64(cur, n)
  IN  IF Gt64(end, Int64(Len(r.data))) THEN NilView(r, ErrNotEnoughBytes)
      ELSE IF Lt64(end, cur) THEN NilView(r, Panic)
      ELSE [r |-> r, lo |-> r.numBytesSliced, hi |-> ToNat(end), err |-> Nil]

\* r.rawSlice(n), n an int64.
rawSlice(r, n) ==
  LET cur == Int64(r.numBytesSliced)
      end == Add64(cur, n)
  IN  IF Gt64(end, Int64(Len(r.data))) THEN NilView(r, ErrNotEnoughBytes)
      \* r.data[cur : end] with end < cur (or end < 0) panics
      ELSE IF Lt64(end, cur) THEN NilView(r, Panic)
      ELSE [r |-> [r EXCEPT !.numBytesSliced = ToNat(end)],
            lo |-> r.numBytesSliced, hi |-> ToNat(end), err |-> Nil]

\* The bytes of r.data[lo:hi].
View(data, lo, hi) == SubSeq(data, lo + 1, hi)

\* b, r.err = r.rawSlice(n)
LatchSlice(o) == IF o.err = Panic THEN o ELSE [o EXCEPT !.r.err = o.err]

\* Slice that takes the payload right after the header, the padding not
\* skipped.
SliceNoSkip(r) ==
  IF r.err # Nil THEN NilView(r, r.err)
  ELSE IF r.numBytesSliced >= Len(r.data) THEN NilView(r, EOF)
  ELSE
    LET a == LatchSlice(rawSlice(r, Int64(8)))
    IN  IF a.err # Nil THEN NilView(a.r, a.err)
    ELSE
    LET length == readInt64(View(r.data, a.lo, a.hi))
        b == LatchSlice(rawSlice(a.r, Int64(8)))
    IN  IF b.err # Nil THEN NilView(b.r, b.err)
    ELSE rawSlice(b.r, length)

\* Slice whose end-of-stream test is > where the code has >=.
SliceStrictEOF(r) ==
  IF r.err # Nil THEN NilView(r, r.err)
  ELSE IF r.numBytesSliced > Len(r.data) THEN NilView(r, EOF)
  ELSE
    LET a == LatchSlice(rawSlice(r, Int64(8)))
    IN  IF a.err # Nil THEN NilView(a.r, a.err)
    ELSE
    LET length == readInt64(View(r.data, a.lo, a.hi))
        b == LatchSlice(rawSlice(a.r, Int64(8)))
    IN  IF b.err # Nil THEN NilView(b.r, b.err)
    ELSE
    LET offset == readInt64(View(r.data, b.lo, b.hi))
        c == LatchSlice(rawSlice(b.r, offset))
    IN  IF c.err # Nil THEN NilView(c.r, c.err)
    ELSE rawSlice(c.r, length)

Slice(r) ==
  IF r.err # Nil THEN NilView(r, r.err)
  ELSE IF r.numBytesSliced >= Len(r.data) THEN NilView(r, EOF)
  ELSE
    \* Length
    LET a == LatchSlice(rawSlice(r, Int64(8)))
    IN  IF a.err # Nil THEN NilView(a.r, a.err)
    ELSE
    LET length == readInt64(View(r.data, a.lo, a.hi))
    \* Offset
        b == LatchSlice(rawSlice(a.r, Int64(8)))
    IN  IF b.err # Nil THEN NilView(b.r, b.err)
    ELSE
    LET offset == readInt64(View(r.data, b.lo, b.hi))
    \* Padding
        c == LatchSlice(rawSlice(b.r, offset))
    IN  IF c.err # Nil THEN NilView(c.r, c.err)
    \* Data
    ELSE rawSlice(c.r, length)

\* ------------------------------------------------------------------ inputs

\* A payload whose first 16 bytes read as the header (length 1, offset 0).
HeaderLike == <<1, 0, 0, 0, 0, 0, 0, 0, 0, 0, 0, 0, 0, 0, 0, 0, 7, 9>>

Payloads == {<<>>, <<65>>, <<66, 67>>}
Strings == {<<66, 67>>}
Aligns == {-1, 0, 3, 8}
Lengths == {-1, 0, 1, 2}

\* 8-byte fields of buffers no writer produced: 0, 1, 200, -1, -16, the
\* largest int64 and the smallest.
Fields ==
  { <<0, 0, 0, 0, 0, 0, 0, 0>>, <<1, 0, 0, 0, 0, 0, 0, 0>>,
    <<200, 0, 0, 0, 0, 0, 0, 0>>,
    <<255, 255, 255, 255, 255, 255, 255, 255>>,
    <<240, 255, 255, 255, 255, 255, 255, 255>>,
    <<255, 255, 255, 255, 255, 255, 255, 127>>,
    <<0, 0, 0, 0, 0, 0, 0, 128>> }
Tails == {<<>>, <<5>>, <<5, 6, 7>>}
Buffers == { f \o g \o t : f \in Fields, g \in Fields, t \in Tails } \cup Tails

\* ------------------------------------------------------------------ state

VARIABLES
  w,          \* the ByteBlockWriter under test, its sink included
  mono,       \* byteblock.go's writer, given the same Write calls and sink behaviour
  onlyWrite,  \* every operation on w so far was Write
  blocks,     \* per block opened on w: where, and what was appended
  lastOp,     \* the last writer operation: its name, result and sink calls
  prev,       \* w before the last writer operation
  r,          \* the ByteBlockSlicer, or NoSlicer
  src,        \* what r's buffer is: a prefix of w.sink, or one of Buffers
  results,    \* the outcomes of the Slice calls on r, in order
  r2,         \* a second ByteBlockSlicer, or NoSlicer
  results2,   \* the outcomes of the Slice calls on r2, in order
  two,        \* two ByteBlockWriters bound to one sink, or NoTwo
  fn          \* a call of fillInt64/readInt64 or of alignOffset, or NoCall

vars == <<w, mono, onlyWrite, blocks, lastOp, prev, r, src, results, r2, results2, two, fn>>

\* The one writer and the slicers, which neither the two writers on one sink
\* nor a codec or aligner call touch.
oneVars == <<w, mono, onlyWrite, blocks, lastOp, prev, r, src, results, r2, results2>>

NoSlicer == [data |-> <<>>, numBytesSliced |-> -1, err |-> Nil]
NoOp == [op |-> "none", ret |-> Nil, calls |-> 0, arg |-> 0]

NoTwo == [sink |-> <<>>, wr |-> <<>>, job |-> <<>>, done |-> <<>>]
NoCall == [name |-> "none"]

\* One writer constructed over an empty sink, no slicer yet.
InitOne ==
  /\ w = NewByteBlockWriter
  /\ mono = NewByteBlockWriterMono
  /\ onlyWrite = TRUE
  /\ blocks = <<>>
  /\ lastOp = NoOp
  /\ prev = NewByteBlockWriter
  /\ r = NoSlicer
  /\ src = [kind |-> "none", n |-> 0]
  /\ results = <<>>
  /\ r2 = NoSlicer
  /\ results2 = <<>>

Init ==
  /\ InitOne
  /\ two = NoTwo
  /\ fn = NoCall

\* The bytes the sink took between writer states a and b.
Taken(a, b) == SubSeq(b.sink, Len(a.sink) + 1, Len(b.sink))

\* A block just opened: hdr and start are read off the sink (where its
\* header begins, where its payload is to begin).
Opened(align, length, before, after) ==
  [align |-> align, length |-> length,
   hdr |-> Len(before.sink), start |-> Len(after.sink),
   data |-> <<>>, sunk |-> 0, ok |-> TRUE]

\* The open block after an append of data that returned ret and of which
\* the sink took n bytes.
Grown(bs, data, n, ret) ==
  IF bs = <<>> THEN bs
  ELSE [bs EXCEPT ![Len(bs)].data = IF ret = Nil THEN @ \o data ELSE @,
                  ![Len(bs)].sunk = @ + n,
                  ![Len(bs)].ok = @ /\ ret = Nil]

Start(x) == [x EXCEPT !.calls = 0]

\* The block opened last.
Last == blocks[Len(blocks)]

\* (align - pos mod align) mod align, and 0 for align <= 1.
PadTo(align, pos) == IF align > 1 THEN (align - (pos % align)) % align ELSE 0

\* arg: the length given to NewBlock, or the length of the data given.
WriterStep(op, arg, res) ==
  /\ r = NoSlicer
  /\ w.numBytesWritten <= MaxWritten
  /\ w' = res
  /\ lastOp' = [op |-> op, ret |-> res.ret, calls |-> res.calls, arg |-> arg]
  /\ prev' = w
  /\ UNCHANGED <<r, src, results, r2, results2, two, fn>>

NewBlockStep(align, length, io) ==
  LET res == NewBlock(Start(w), align, length, io)
  IN  /\ WriterStep("NewBlock", length, res)
      /\ blocks' = IF res.ret = Nil
                     THEN Append(blocks, Opened(align, length, w, res))
                     ELSE blocks
      /\ onlyWrite' = FALSE
      /\ UNCHANGED mono

AppendStep(op, res, data) ==
  /\ WriterStep(op, Len(data), res)
  /\ blocks' = Grown(blocks, data, Len(Taken(w, res)), res.ret)
  /\ onlyWrite' = FALSE
  /\ UNCHANGED mono

\* nb: the writer as NewBlock leaves it inside Write.
WriteStep(op, res, nb, data, align) ==
  /\ WriterStep(op, Len(data), res)
  /\ blocks' = IF nb.ret = Nil /\ w.err = Nil
                 THEN Grown(Append(blocks, Opened(align, Len(data), w, nb)),
                            data, Len(Taken(nb, res)), res.ret)
                 ELSE blocks

WriteBoth(data, align, io) ==
  /\ WriteStep("Write", Write(Start(w), data, align, io),
               NewBlock(Start(w), align, Len(data), io), data, align)
  /\ mono' = IF onlyWrite THEN WriteMono(Start(mono), data, align, io) ELSE mono
  /\ UNCHANGED onlyWrite

\* ------------------------------------------------------------------ the writer over a sink that may fail

DoNewBlock ==
  \E align \in Aligns, length \in Lengths, io \in SinkScripts :
    NewBlockStep(align, length, io)

DoAppend ==
  \E data \in Payloads, io \in SinkScripts :
    AppendStep("Append", AppendData(Start(w), data, io), data)

DoAppendString ==
  \E data \in Strings, io \in SinkScripts :
    AppendStep("AppendString", AppendString(Start(w), data, io), data)

DoWrite ==
  \E data \in Payloads, align \in Aligns, io \in SinkScripts :
    WriteBoth(data, align, io)

DoWriteString ==
  \E data \in Strings, align \in Aligns, io \in SinkScripts :
    /\ WriteStep("WriteString", WriteString(Start(w), data, align, io),
                 NewBlock(Start(w), align, Len(data), io), data, align)
    /\ onlyWrite' = FALSE
    /\ UNCHANGED mono

Next ==
  \/ DoNewBlock
  \/ DoAppend
  \/ DoAppendString
  \/ DoWrite
  \/ DoWriteString

Spec == Init /\ [][Next]_vars

\* ------------------------------------------------------------------ write, then slice

\* Write over a sink that never fails (a bytes.Buffer).
WriteToBuffer ==
  \E data \in Payloads \cup {HeaderLike}, align \in Aligns :
    WriteBoth(data, align, NoFail)

\* NewByteBlockSlicer(buf.Bytes()[:n]) once the writing is over.
DoNewSlicer ==
  \E n \in 0..Len(w.sink) :
    /\ r = NoSlicer
    /\ r' = NewByteBlockSlicer(SubSeq(w.sink, 1, n))
    /\ src' = [kind |-> "prefix", n |-> n]
    /\ UNCHANGED <<w, mono, onlyWrite, blocks, lastOp, prev, results, r2, results2, two, fn>>

\* NewByteBlockSlicer over bytes that no writer produced.
DoNewSlicerOnBytes ==
  \E b \in Buffers :
    /\ r = NoSlicer
    /\ lastOp = NoOp
    /\ r' = NewByteBlockSlicer(b)
    /\ src' = [kind |-> "bytes", n |-> Len(b)]
    /\ UNCHANGED <<w, mono, onlyWrite, blocks, lastOp, prev, results, r2, results2, two, fn>>

Panicked == \E i \in 1..Len(results) : results[i].err = Panic

\* One Slice call; from and latched are the cursor and r.err it found, to
\* and after those it left.
DoSlice ==
  LET o == Slice(r)
  IN  /\ r # NoSlicer
      /\ Len(results) < MaxSlices
      /\ ~Panicked
      /\ r' = o.r
      /\ results' = Append(results,
                      [lo |-> o.lo, hi |-> o.hi, err |-> o.err,
                       data |-> IF o.lo >= 0 THEN View(r.data, o.lo, o.hi) ELSE <<>>,
                       from |-> r.numBytesSliced, latched |-> r.err,
                       to |-> o.r.numBytesSliced, after |-> o.r.err])
      /\ UNCHANGED <<w, mono, onlyWrite, blocks, lastOp, prev, src, r2, results2, two, fn>>

NextSlice ==
  \/ WriteToBuffer
  \/ DoNewSlicer
  \/ DoNewSlicerOnBytes
  \/ DoSlice

SpecSlice == Init /\ [][NextSlice]_vars

\* ------------------------------------------------------------------ blocks built chunk by chunk, then sliced

\* NewBlock over a sink that never fails.
BuildNewBlock ==
  \E align \in Aligns, length \in Lengths :
    NewBlockStep(align, length, NoFail)

\* Append over a sink that never fails.
BuildAppend ==
  \E data \in Payloads :
    AppendStep("Append", AppendData(Start(w), data, NoFail), data)

\* NewByteBlockSlicer(buf.Bytes()) once the writing is over.
DoNewSlicerWhole ==
  /\ r = NoSlicer
  /\ r' = NewByteBlockSlicer(w.sink)
  /\ src' = [kind |-> "prefix", n |-> Len(w.sink)]
  /\ UNCHANGED <<w, mono, onlyWrite, blocks, lastOp, prev, results, r2, results2, two, fn>>

NextBuild ==
  \/ BuildNewBlock
  \/ BuildAppend
  \/ DoNewSlicerWhole
  \/ DoSlice

SpecBuild == Init /\ [][NextBuild]_vars

\* The payload bytes the block opened last had taken before the last
\* operation.
SunkBefore == Last.sunk - Len(Taken(prev, w))

\* Every block has all the bytes its NewBlock declared.
AllClosed == \A i \in 1..Len(blocks) : blocks[i].sunk = blocks[i].length

\* C14: over a sink that never fails, an Append that keeps the chunks of
\* the open block within the declared length n succeeds; a NewBlock after a
\* block succeeds exactly when the chunks appended to that block sum to n;
\* and a stream of blocks built so slices to, per block, its chunks
\* concatenated in append order.
C14_IncrementalBuild ==
  /\ (lastOp.op = "Append" /\ prev.err = Nil /\ blocks # <<>>
        /\ SunkBefore + lastOp.arg <= Last.length) =>
       /\ lastOp.ret = Nil
       /\ Len(Last.data) = SunkBefore + lastOp.arg
  /\ (lastOp.op = "NewBlock" /\ prev.err = Nil) =>
       /\ (lastOp.ret = Nil /\ Len(blocks) >= 2) =>
            blocks[Len(blocks) - 1].sunk = blocks[Len(blocks) - 1].length
       /\ (lastOp.ret # Nil /\ blocks # <<>>) => Last.sunk # Last.length
  /\ (r # NoSlicer /\ w.err = Nil /\ AllClosed) =>
       \A i \in 1..Len(results) :
         IF i <= Len(blocks)
           THEN results[i].err = Nil /\ results[i].data = blocks[i].data
           ELSE results[i].err = EOF

\* C14 for blocks of declared length >= 0, which the code keeps.
C14_DeclaredNonNegative ==
  ((\A i \in 1..Len(blocks) : blocks[i].length >= 0) /\ lastOp.arg >= 0) =>
    C14_IncrementalBuild

\* A block of two chunks, closed, and sliced back as their concatenation.
C14_TwoChunks ==
  /\ Len(blocks) = 2 /\ AllClosed /\ w.err = Nil
  /\ blocks[1].length = 2 /\ blocks[1].data = <<65, 65>>
  /\ Len(results) = 3
  /\ results[1].data = <<65, 65>> /\ results[2].err = Nil /\ results[3].err = EOF

\* ------------------------------------------------------------------ two slicers side by side

\* Each slicer of a pair is asked for at most MaxPairSlices blocks.
MaxPairSlices == 2

\* Write over a sink that never fails, for the pair of slicers to read.
WriteForPair ==
  \E data \in {<<66, 67>>, HeaderLike}, align \in {0, 3, 8} :
    WriteBoth(data, align, NoFail)

\* What is written in place of the padding bytes of the second buffer: 0 as
\* the writer does, 255, or a byte that varies with the position (-1).
PadFills == {0, 255, -1}

\* Whether byte i (from 1) of the stream lies in the padding of a frame.
InPadding(i) ==
  \E k \in 1..Len(blocks) : blocks[k].hdr + 16 < i /\ i <= blocks[k].start

\* The buffer with its padding bytes overwritten.
Scramble(data, fill) ==
  [i \in 1..Len(data) |->
     IF InPadding(i) THEN (IF fill < 0 THEN (37 * i + 1) % 256 ELSE fill)
     ELSE data[i]]

\* The two buffers of the slicers.
Buffer1 == SubSeq(w.sink, 1, src.n)
Buffer2 == Scramble(Buffer1, src.fill)

\* Two slicers, each its own instance: one over the first n bytes written,
\* the other over the same bytes (fill 0) or their copy with other padding.
DoNewSlicerPair ==
  \E n \in 0..Len(w.sink), fill \in PadFills :
    /\ r = NoSlicer
    /\ r' = NewByteBlockSlicer(SubSeq(w.sink, 1, n))
    /\ r2' = NewByteBlockSlicer(Scramble(SubSeq(w.sink, 1, n), fill))
    /\ src' = [kind |-> "pair", n |-> n, fill |-> fill]
    /\ UNCHANGED <<w, mono, onlyWrite, blocks, lastOp, prev, results, results2, two, fn>>

\* One instance used by both callers: a call moves the cursor of either.
SliceOnShared(p, i) ==
  LET o == Slice(p[i])
  IN  [p |-> [k \in 1..2 |-> [p[k] EXCEPT !.numBytesSliced = o.r.numBytesSliced,
                                           !.err = o.r.err]],
       o |-> o]

\* p[i].Slice(): the call changes its receiver and nothing else.
SliceOn(p, i) ==
  LET o == Slice(p[i])
  IN  [p |-> [p EXCEPT ![i] = o.r], o |-> o]

\* What a Slice call on x returned, and when among the calls on the pair.
Returned(x, o) ==
  [lo |-> o.lo, hi |-> o.hi, err |-> o.err,
   data |-> IF o.lo >= 0 THEN View(x.data, o.lo, o.hi) ELSE <<>>,
   seq |-> Len(results) + Len(results2) + 1]

PairPanicked ==
  \/ \E i \in 1..Len(results) : results[i].err = Panic
  \/ \E i \in 1..Len(results2) : results2[i].err = Panic

DoSliceFirst ==
  LET c == SliceOn(<<r, r2>>, 1)
  IN  /\ r # NoSlicer /\ src.kind = "pair"
      /\ Len(results) < MaxPairSlices
      /\ ~PairPanicked
      /\ r' = c.p[1] /\ r2' = c.p[2]
      /\ results' = Append(results, Returned(r, c.o))
      /\ UNCHANGED <<w, mono, onlyWrite, blocks, lastOp, prev, src, results2, two, fn>>

DoSliceSecond ==
  LET c == SliceOn(<<r, r2>>, 2)
  IN  /\ r # NoSlicer /\ src.kind = "pair"
      /\ Len(results2) < MaxPairSlices
      /\ ~PairPanicked
      /\ r' = c.p[1] /\ r2' = c.p[2]
      /\ results2' = Append(results2, Returned(r2, c.o))
      /\ UNCHANGED <<w, mono, onlyWrite, blocks, lastOp, prev, src, results, two, fn>>

NextPair ==
  \/ WriteForPair
  \/ DoNewSlicerPair
  \/ DoSliceFirst
  \/ DoSliceSecond

SpecPair == Init /\ [][NextPair]_vars

\* What a caller sees of a call: the view, its bytes and the error.
Seen(x) == [lo |-> x.lo, hi |-> x.hi, err |-> x.err, data |-> x.data]

\* C17: two slicers over buffers that differ in padding bytes only return
\* the same views, payload bytes and errors, call for call.
C17_PaddingIgnored ==
  (r # NoSlicer /\ src.kind = "pair") =>
    \A i \in 1..Len(results) :
      i <= Len(results2) => Seen(results[i]) = Seen(results2[i])

\* Two and four padding bytes that differ, and the payloads behind them the
\* same.
C17_Witness ==
  /\ r # NoSlicer /\ src.kind = "pair" /\ src.n = Len(w.sink)
  /\ r.data # r2.data
  /\ Len(blocks) = 2
  /\ blocks[1].start = 18 /\ blocks[2].start = blocks[2].hdr + 20
  /\ r2.data[blocks[2].start] = 255 /\ r.data[blocks[2].start] = 0
  /\ Len(results) = 2 /\ Len(results2) = 2
  /\ results[1].data = <<66, 67>> /\ results2[1].data = <<66, 67>>
  /\ results[2].err = Nil /\ results2[2].data = HeaderLike

\* The first k results of a slicer that is the only one, from x on.
RECURSIVE RunAlone(_, _)
RunAlone(x, k) ==
  IF k = 0 THEN <<>>
  ELSE LET o == Slice(x)
       IN  <<[lo |-> o.lo, hi |-> o.hi, err |-> o.err,
              data |-> IF o.lo >= 0 THEN View(x.data, o.lo, o.hi) ELSE <<>>]>>
             \o RunAlone(o.r, k - 1)

\* C18: however the Slice calls of two slicer instances interleave, each
\* returns what it returns when it runs alone over its buffer, and the
\* buffers stay as they were given.
C18_IndependentSlicers ==
  (r # NoSlicer /\ src.kind = "pair") =>
    /\ [i \in 1..Len(results) |-> Seen(results[i])]
         = RunAlone(NewByteBlockSlicer(Buffer1), Len(results))
    /\ [i \in 1..Len(results2) |-> Seen(results2[i])]
         = RunAlone(NewByteBlockSlicer(Buffer2), Len(results2))
    /\ r.data = Buffer1
    /\ r2.data = Buffer2

\* One buffer, the calls of the two slicers taking turns.
C18_Witness ==
  /\ r # NoSlicer /\ src.kind = "pair" /\ src.n = Len(w.sink)
  /\ r.data = r2.data /\ Len(blocks) = 2
  /\ Len(results) = 2 /\ Len(results2) = 2
  /\ results[1].seq = 1 /\ results2[1].seq = 2
  /\ results[2].seq = 3 /\ results2[2].seq = 4
  /\ results[2].data = HeaderLike /\ results2[2].data = HeaderLike
  /\ results[2].lo = results2[2].lo

\* ------------------------------------------------------------------ two writers bound to one sink
\* two.sink is what the one sink holds, two.wr the two writers (their sink
\* field is bound to two.sink at each step), two.job what each is in the
\* middle of, two.done the Write calls that returned, in order.  A step is
\* one sink write of a Write call with the statements that lead to it.

Idle == [pc |-> "idle", data |-> <<>>, align |-> 0, offset |-> 0, before |-> 0, at |-> <<>>]

InitTwo ==
  /\ InitOne
  /\ fn = NoCall
  /\ two = [sink |-> <<>>, wr |-> <<NewByteBlockWriter, NewByteBlockWriter>>,
            job |-> <<Idle, Idle>>, done |-> <<>>]

\* Writer i with its sink in hand.
Bound(i) == [two.wr[i] EXCEPT !.sink = two.sink]

\* Writer i is left as x, its Write call still running as j.
Goes(i, x, j) ==
  /\ two' = [two EXCEPT !.sink = x.sink,
                        !.wr[i] = [x EXCEPT !.sink = <<>>],
                        !.job[i] = [j EXCEPT !.at = Append(@, Len(two.sink))]]
  /\ UNCHANGED <<oneVars, fn>>

\* Writer i is left as x, its Write call returns x.ret.
Returns(i, x, j) ==
  /\ two' = [two EXCEPT !.sink = x.sink,
                        !.wr[i] = [x EXCEPT !.sink = <<>>],
                        !.job[i] = Idle,
                        !.done = Append(@, [who |-> i, ret |-> x.ret, data |-> j.data,
                                            align |-> j.align, offset |-> j.offset,
                                            before |-> j.before,
                                            at |-> Append(j.at, Len(two.sink))])]
  /\ UNCHANGED <<oneVars, fn>>

\* Write(data, align) is called on writer i; NewBlock up to the length field.
TwoLength(i) ==
  \E data \in {<<65>>, <<66, 67>>}, align \in {0, 8} :
    LET x == Start(Bound(i))
        j == [Idle EXCEPT !.pc = "length", !.data = data, !.align = align,
                          !.before = x.numBytesWritten]
    IN  /\ two # NoTwo /\ two.job[i].pc = "idle"
        /\ Len(two.sink) <= MaxWritten
        /\ IF x.err # Nil THEN Returns(i, Return(x, x.err), j)
           ELSE IF x.numBytesLeft > 0
             THEN Returns(i, Return([x EXCEPT !.err = ErrNewBlockBeforeFinish],
                                    ErrNewBlockBeforeFinish), j)
           ELSE LET a == writeStub(x, Len(data), NoFail)
                IN  IF a.err # Nil THEN Returns(i, a, j) ELSE Goes(i, a, j)

\* NewBlock: the offset field.
TwoOffset(i) ==
  LET x == Bound(i)
      offset == alignOffset(two.job[i].align, x.numBytesWritten + 8)
      j == [two.job[i] EXCEPT !.pc = "offset", !.offset = offset]
      b == writeStub(x, offset, NoFail)
  IN  /\ two # NoTwo /\ two.job[i].pc = "length"
      /\ IF b.err # Nil THEN Returns(i, b, j) ELSE Goes(i, b, j)

\* NewBlock: the padding, and numBytesLeft = length.
TwoPadding(i) ==
  LET x == Bound(i)
      j == [two.job[i] EXCEPT !.pc = "padding"]
      c == Latch(rawWrite(x, Zeros(j.offset), NoFail))
  IN  /\ two # NoTwo /\ two.job[i].pc = "offset"
      /\ IF c.err # Nil THEN Returns(i, c, j)
         ELSE Goes(i, Return([c EXCEPT !.numBytesLeft = Len(j.data)], Nil), j)

\* Append(data), and Write returns.
TwoData(i) ==
  LET x == Bound(i)
      j == two.job[i]
  IN  /\ two # NoTwo /\ j.pc = "padding"
      /\ Returns(i, Latch(AppendData(x, j.data, NoFail)), j)

NextTwo ==
  \/ \E i \in 1..2 : TwoLength(i)
  \/ \E i \in 1..2 : TwoOffset(i)
  \/ \E i \in 1..2 : TwoPadding(i)
  \/ \E i \in 1..2 : TwoData(i)

SpecTwo == InitTwo /\ [][NextTwo]_vars

\* The n bytes of the shared sink from position p (from 0) on.
SinkAt(p, n) == SubSeq(two.sink, p + 1, p + n)

\* Neither writer is inside a Write, and every Write returned nil.
AllReturnedNil ==
  /\ two # NoTwo
  /\ two.job[1].pc = "idle" /\ two.job[2].pc = "idle"
  /\ \A k \in 1..Len(two.done) : two.done[k].ret = Nil

\* What Slice returns for the first k frames of the shared sink.
Decoded(k) == RunAlone(NewByteBlockSlicer(two.sink), k)

\* C19: with two writers on one sink nothing fails and nothing is noticed:
\* every Write returns nil with no error latched, each of its four sink
\* writes lands whole where the sink then ends, the offset it writes is
\* computed from the writer's own byte count, and the two counts add up to
\* the length of the sink; the stream is corrupt nevertheless (C19_Witness).
C19_NothingDetects ==
  two # NoTwo =>
    /\ two.wr[1].err = Nil /\ two.wr[2].err = Nil
    /\ two.wr[1].numBytesWritten + two.wr[2].numBytesWritten = Len(two.sink)
    /\ \A k \in 1..Len(two.done) :
         LET d == two.done[k]
         IN  /\ d.ret = Nil
             /\ d.offset = PadTo(d.align, d.before + 16)
             /\ SinkAt(d.at[1], 8) = fillInt64(Int64(Len(d.data)))
             /\ SinkAt(d.at[2], 8) = fillInt64(Int64(d.offset))
             /\ SinkAt(d.at[3], d.offset) = [n \in 1..d.offset |-> 0]
             /\ SinkAt(d.at[4], Len(d.data)) = d.data

\* Two Writes, one by each writer, their sink writes interleaved: both
\* returned nil, and slicing the sink returns the two payloads in neither
\* order.
C19_Witness ==
  /\ AllReturnedNil /\ Len(two.done) = 2
  /\ two.done[1].who # two.done[2].who
  /\ two.done[2].at[1] < two.done[1].at[4]
  /\ LET got == Decoded(2)
         sent == <<two.done[1].data, two.done[2].data>>
     IN  \/ got[1].err # Nil
         \/ got[2].err # Nil
         \/ /\ <<got[1].data, got[2].data>> # sent
            /\ <<got[2].data, got[1].data>> # sent

\* Two Writes one after the other, no sink write of one between those of the
\* other: the second writer pads against its own count of 0, and its
\* payload, asked to start at a multiple of 8, starts at 33.
C19_WitnessMisaligned ==
  /\ AllReturnedNil /\ Len(two.done) = 2
  /\ two.done[1].who = 1 /\ two.done[2].who = 2
  /\ two.done[1].at[4] < two.done[2].at[1]
  /\ two.done[2].align = 8 /\ two.done[2].before = 0
  /\ two.done[2].at[4] = 33

\* ------------------------------------------------------------------ the codec and the aligner alone

\* alignOffset is tried at every position up to MaxPos, and at a few far ones.
MaxPos == 40

\* The 16-bit digits the int64s given to fillInt64 are made of: every
\* combination of four, so 0, 1, -1, the largest and the smallest int64 and
\* the test's 0x0F0000000000000F are among them.
SampleDigits == {0, 1, 15, 255, 256, 3840, 32767, 32768, 65535}
SampleInt64s == [1..4 -> SampleDigits]

SampleAligns == (-2..9) \cup {16, 4096}
SamplePositions == (-3..MaxPos) \cup {65535, 65536, 1000000000}

InitPure ==
  /\ InitOne
  /\ two = NoTwo
  /\ fn \in [name : {"codec"}, n : SampleInt64s, out : {<<>>}, back : {<<>>}]
          \cup [name : {"alignOffset"}, align : SampleAligns, pos : SamplePositions,
                 offset : {0}, done : {FALSE}]

\* fillInt64(n, out)
DoFillInt64 ==
  /\ fn.name = "codec" /\ fn.out = <<>>
  /\ fn' = [fn EXCEPT !.out = fillInt64(fn.n)]
  /\ UNCHANGED <<oneVars, two>>

\* n = readInt64(out)
DoReadInt64 ==
  /\ fn.name = "codec" /\ fn.out # <<>> /\ fn.back = <<>>
  /\ fn' = [fn EXCEPT !.back = readInt64(fn.out)]
  /\ UNCHANGED <<oneVars, two>>

\* offset = alignOffset(align, pos)
DoAlignOffset ==
  /\ fn.name = "alignOffset" /\ ~fn.done
  /\ fn' = [fn EXCEPT !.offset = alignOffset(fn.align, fn.pos), !.done = TRUE]
  /\ UNCHANGED <<oneVars, two>>

NextPure ==
  \/ DoFillInt64
  \/ DoReadInt64
  \/ DoAlignOffset

SpecPure == InitPure /\ [][NextPure]_vars

\* Byte i (0 the least significant) of an int64, read off its digits.
ByteAt(n, i) ==
  IF i % 2 = 0 THEN n[i \div 2 + 1] % 256 ELSE n[i \div 2 + 1] \div 256

\* C12: fillInt64 stores byte i of n at index i, the least significant at
\* index 0 and the most significant at index 7, and readInt64 of what
\* fillInt64 stored is n, for every int64 n.
C12_CodecInverse ==
  fn.name = "codec" =>
    /\ fn.out # <<>> =>
         /\ Len(fn.out) = 8
         /\ \A i \in 0..7 : fn.out[i + 1] = ByteAt(fn.n, i)
    /\ fn.back # <<>> => fn.back = fn.n

\* 0x0F0000000000000F read back, and the smallest int64 read back.
C12_Witness ==
  /\ fn.name = "codec"
  /\ fn.n = <<15, 0, 0, 3840>>
  /\ fn.out = <<15, 0, 0, 0, 0, 0, 0, 15>>
  /\ fn.back = fn.n

C12_WitnessHighBit ==
  /\ fn.name = "codec"
  /\ fn.n = <<0, 0, 0, 32768>> /\ IsNeg64(fn.n)
  /\ fn.out = <<0, 0, 0, 0, 0, 0, 0, 128>>
  /\ fn.back = fn.n

\* C13: for align > 1 and pos >= 0, alignOffset(align, pos) is
\* (align - pos mod align) mod align, lies in [0, align) and brings pos to a
\* multiple of align, so that an aligned pos gets 0; for align <= 1 it is 0.
C13_AlignerLaw ==
  (fn.name = "alignOffset" /\ fn.done) =>
    /\ (fn.align > 1 /\ fn.pos >= 0) =>
         /\ fn.offset = (fn.align - (fn.pos % fn.align)) % fn.align
         /\ 0 <= fn.offset /\ fn.offset < fn.align
         /\ (fn.pos + fn.offset) % fn.align = 0
         /\ fn.pos % fn.align = 0 => fn.offset = 0
    /\ fn.align <= 1 => fn.offset = 0

\* An aligned position gets 0, not align.
C13_Witness ==
  /\ fn.name = "alignOffset" /\ fn.done
  /\ fn.align = 8 /\ fn.pos = 40 /\ fn.offset = 0

C13_WitnessPadded ==
  /\ fn.name = "alignOffset" /\ fn.done
  /\ fn.align = 5 /\ fn.pos = 7 /\ fn.offset = 3

\* ------------------------------------------------------------------ claims: write, then slice

\* The slicer reads everything w wrote, and w was only ever given Writes
\* that all succeeded.
WholeStream ==
  /\ src.kind = "prefix" /\ src.n = Len(w.sink)
  /\ onlyWrite /\ w.err = Nil

\* Where block i ends in the stream.
EndOf(i) == blocks[i].start + Len(blocks[i].data)

\* The slicer reads a strict prefix of what w wrote that ends inside a frame.
CutStream ==
  /\ src.kind = "prefix" /\ src.n < Len(w.sink)
  /\ onlyWrite /\ w.err = Nil
  /\ src.n # 0
  /\ \A i \in 1..Len(blocks) : src.n # EndOf(i)

\* The number of frames that lie whole inside the slicer's buffer.
Whole == Cardinality({i \in 1..Len(blocks) : EndOf(i) <= src.n})

\* C1: after Write(payload, align) for each pair in order on a fresh Writer
\* over an empty sink that never fails, the k-th Slice on a fresh Slicer over
\* the bytes written returns the k-th payload, byte for byte, with a nil
\* error.
C1_RoundTrip ==
  WholeStream =>
    \A i \in 1..Len(results) :
      i <= Len(blocks) =>
        /\ results[i].err = Nil
        /\ results[i].data = blocks[i].data
        /\ results[i].lo = blocks[i].start

C1_Witness ==
  /\ WholeStream
  /\ Len(blocks) = 2 /\ Len(results) >= 2
  /\ blocks[1].align = 3 /\ blocks[1].start = 18 /\ blocks[1].data = <<66, 67>>
  /\ blocks[2].align = 8 /\ blocks[2].data = HeaderLike
  /\ results[2].data = HeaderLike

\* C2: once a Slice call on a Slicer returns ErrNotEnoughBytes, every later
\* Slice call on it returns ErrNotEnoughBytes again.
C2_SlicerSticky ==
  \A i \in 1..Len(results) : \A j \in 1..Len(results) :
    (i < j /\ results[i].err = ErrNotEnoughBytes) => results[j].err = ErrNotEnoughBytes

\* C4: on a strict prefix of a valid stream that ends inside a frame, the
\* Slice calls return the payloads of the frames that lie whole in the
\* prefix, the call that reaches the cut frame returns ErrNotEnoughBytes and
\* no payload, and no call returns anything but those payloads.
C4_Truncation ==
  CutStream =>
    \A i \in 1..Len(results) :
      /\ i <= Whole => (results[i].err = Nil /\ results[i].data = blocks[i].data)
      /\ i = Whole + 1 => (results[i].err = ErrNotEnoughBytes /\ results[i].lo = -1)
      /\ results[i].err = Nil => (i <= Whole /\ results[i].data = blocks[i].data)

\* The part of C4 up to the cut frame: the whole frames come back, and the
\* call that reaches the cut frame returns ErrNotEnoughBytes and no payload.
C4_UpToTheCut ==
  CutStream =>
    \A i \in 1..Len(results) :
      /\ i <= Whole => (results[i].err = Nil /\ results[i].data = blocks[i].data)
      /\ i = Whole + 1 => (results[i].err = ErrNotEnoughBytes /\ results[i].lo = -1)

\* C5: whatever the buffer holds, every Slice call returns a view inside
\* the buffer, end-of-stream or ErrNotEnoughBytes, and the cursor stays in
\* [0, len(buffer)].
C5_BoundsSafe ==
  /\ r # NoSlicer => (0 <= r.numBytesSliced /\ r.numBytesSliced <= Len(r.data))
  /\ \A i \in 1..Len(results) :
       \/ results[i].err = Nil /\ 0 <= results[i].lo /\ results[i].lo <= results[i].hi
                               /\ results[i].hi <= Len(r.data)
       \/ results[i].err = EOF /\ results[i].lo = -1
       \/ results[i].err = ErrNotEnoughBytes /\ results[i].lo = -1

\* The part of C5 that the code keeps: the cursor stays in [0, len(buffer)]
\* and a view that is returned lies inside the buffer.
C5_CursorInside ==
  /\ r # NoSlicer => (0 <= r.numBytesSliced /\ r.numBytesSliced <= Len(r.data))
  /\ \A i \in 1..Len(results) :
       results[i].err = Nil =>
         (0 <= results[i].lo /\ results[i].lo <= results[i].hi /\ results[i].hi <= Len(r.data))

\* C10: a Slice call that finds no error latched and the cursor at the end
\* of the buffer returns io.EOF, latches nothing and leaves the cursor, so
\* that every later call returns io.EOF too; after the N payloads of a valid
\* N-frame stream every call returns io.EOF; Slice on an empty buffer returns
\* io.EOF.
C10_EndOfStream ==
  /\ \A i \in 1..Len(results) :
       (results[i].latched = Nil /\ results[i].from = Len(r.data)) =>
         /\ results[i].err = EOF /\ results[i].lo = -1
         /\ results[i].after = Nil /\ results[i].to = results[i].from
  /\ \A i \in 1..Len(results) : \A j \in 1..Len(results) :
       (i < j /\ results[i].err = EOF) => results[j].err = EOF
  /\ WholeStream =>
       \A i \in 1..Len(results) : i > Len(blocks) => results[i].err = EOF
  /\ (r # NoSlicer /\ r.data = <<>>) =>
       \A i \in 1..Len(results) : results[i].err = EOF

C10_Witness ==
  /\ WholeStream
  /\ Len(blocks) = 1 /\ Len(results) = 3
  /\ results[1].err = Nil /\ results[1].data = <<65>>
  /\ results[2].err = EOF /\ results[3].err = EOF
  /\ r.numBytesSliced = Len(r.data) /\ r.err = Nil

\* The int64 in the 8 bytes of the slicer's buffer from position p (from 0)
\* on, and whether it lies in 0 .. 2^32 - 1.
FieldAt(p) == readInt64(View(r.data, p, p + 8))
Small(n) == n[3] = 0 /\ n[4] = 0

\* The calls of the loop `for { _, err := r.Slice(); if err != nil { break } }`:
\* those up to the first that did not return a nil error.
LoopCalls ==
  LET stops == {i \in 1..Len(results) : results[i].err # Nil}
  IN  IF stops = {} THEN Len(results)
      ELSE CHOOSE i \in stops : \A j \in stops : i <= j

\* C21: the cursor never decreases; a Slice call that returns a payload
\* moves it by 16 + offset + length, at least 16, the offset and length
\* being those in the header at the cursor, and returns the last length
\* bytes it moved over; so a loop that calls Slice until it gets no nil
\* error makes at most len(buffer)/16 + 1 calls, and the payload views lie
\* one after another in the buffer without overlap.
C21_Progress ==
  /\ \A i \in 1..Len(results) :
       /\ results[i].from <= results[i].to
       /\ i < Len(results) => results[i + 1].from = results[i].to
       /\ i = Len(results) => r.numBytesSliced = results[i].to
       /\ results[i].err = Nil =>
            LET length == FieldAt(results[i].from)
                offset == FieldAt(results[i].from + 8)
            IN  /\ Small(length) /\ Small(offset)
                /\ results[i].to = results[i].from + 16 + ToNat(offset) + ToNat(length)
                /\ results[i].to >= results[i].from + 16
                /\ results[i].lo = results[i].from + 16 + ToNat(offset)
                /\ results[i].hi = results[i].to
  /\ r # NoSlicer => LoopCalls <= Len(r.data) \div 16 + 1
  /\ \A i \in 1..Len(results) : \A j \in 1..Len(results) :
       (i < j /\ results[i].err = Nil /\ results[j].err = Nil) =>
         results[i].hi <= results[j].lo

\* A buffer of 35 bytes: two payloads and the end of the stream in
\* 35/16 + 1 = 3 calls.
C21_Witness ==
  /\ WholeStream /\ Len(r.data) = 35
  /\ Len(results) = 3 /\ LoopCalls = 3
  /\ results[1].lo = 16 /\ results[1].hi = 17
  /\ results[2].lo = 33 /\ results[2].hi = 35
  /\ results[3].err = EOF

\* Bytes no writer produced, with an offset field of 1: the one call that
\* returns a payload moves the cursor by 16 + 1 + 1.
C21_WitnessPadded ==
  /\ src.kind = "bytes" /\ Len(r.data) = 19
  /\ Len(results) = 2 /\ LoopCalls = 2
  /\ results[1].err = Nil /\ results[1].to = 18 /\ results[1].data = <<6>>
  /\ results[2].err = ErrNotEnoughBytes

\* ------------------------------------------------------------------ claims: the writer

\* The 8 bytes of the offset field of the frame whose header begins at hdr.
OffsetField(hdr) == SubSeq(w.sink, hdr + 9, hdr + 16)

\* C3: every block opened by a NewBlock or Write that found no error
\* latched and succeeded has, for align > 1, its payload start at a multiple
\* of align in the stream w emitted; for align <= 1 its offset field is 0
\* and no padding follows the header.
C3_Alignment ==
  \A i \in 1..Len(blocks) :
    /\ blocks[i].align > 1 => blocks[i].start % blocks[i].align = 0
    /\ blocks[i].align <= 1 =>
         /\ OffsetField(blocks[i].hdr) = <<0, 0, 0, 0, 0, 0, 0, 0>>
         /\ blocks[i].start = blocks[i].hdr + 16

C3_Witness ==
  /\ Len(blocks) = 2
  /\ blocks[1].align = 0 /\ blocks[1].sunk = 1
  /\ blocks[2].align = 8 /\ blocks[2].hdr = 17 /\ blocks[2].start = 40
  /\ OffsetField(17) = <<7, 0, 0, 0, 0, 0, 0, 0>>

\* C6: an error a writer operation returns is latched, and an operation
\* that finds an error latched returns that error, calls the sink not once
\* and leaves the sink and the writer as they were.
C6_WriterSticky ==
  /\ lastOp.ret # Nil => w.err = lastOp.ret
  /\ prev.err # Nil =>
       /\ lastOp.ret = prev.err
       /\ lastOp.calls = 0
       /\ w.err = prev.err
       /\ w.sink = prev.sink
       /\ w.numBytesWritten = prev.numBytesWritten
       /\ w.numBytesLeft = prev.numBytesLeft

C6_Witness ==
  /\ prev.err = "short write" /\ Len(prev.sink) = 17
  /\ lastOp.op = "Append" /\ lastOp.arg = 0
  /\ lastOp.ret = "short write"

\* C7 as stated: NewBlock with numBytesLeft > 0 fails with
\* ErrNewBlockBeforeFinish; NewBlock with numBytesLeft = 0 and no error
\* latched does not fail with it.
C7_AsStated ==
  lastOp.op = "NewBlock" =>
    /\ prev.numBytesLeft > 0 => lastOp.ret = ErrNewBlockBeforeFinish
    /\ (prev.numBytesLeft = 0 /\ prev.err = Nil) => lastOp.ret # ErrNewBlockBeforeFinish

\* C7, amended: NewBlock with no error latched and numBytesLeft > 0 fails
\* with ErrNewBlockBeforeFinish, writing nothing; NewBlock with no error
\* latched and numBytesLeft = 0 does not fail with it.
C7_NewBlockBeforeFinish ==
  (lastOp.op = "NewBlock" /\ prev.err = Nil) =>
    /\ prev.numBytesLeft > 0 =>
         (lastOp.ret = ErrNewBlockBeforeFinish /\ w.err = ErrNewBlockBeforeFinish)
    /\ prev.numBytesLeft = 0 => lastOp.ret # ErrNewBlockBeforeFinish

C7_Witness ==
  /\ lastOp.op = "NewBlock" /\ prev.err = Nil /\ prev.numBytesLeft = 1
  /\ lastOp.ret = ErrNewBlockBeforeFinish
  /\ Len(blocks) = 1 /\ blocks[1].length = 2 /\ blocks[1].sunk = 1

\* C8: Append with no error latched fails with ErrWriteMoreThanRequested
\* exactly when the chunk is longer than numBytesLeft; and the payload bytes
\* the sink took for a block never exceed the length its NewBlock declared.
C8_NoOverAppend ==
  /\ (lastOp.op \in {"Append", "AppendString"} /\ prev.err = Nil) =>
       (lastOp.ret = ErrWriteMoreThanRequested <=> lastOp.arg > prev.numBytesLeft)
  /\ \A i \in 1..Len(blocks) : blocks[i].sunk <= blocks[i].length

\* The part of C8 that the code keeps: the test Append makes, and the bound
\* on the payload of every block declared with a length >= 0.
C8_DeclaredNonNegative ==
  /\ (lastOp.op \in {"Append", "AppendString"} /\ prev.err = Nil) =>
       (lastOp.ret = ErrWriteMoreThanRequested <=> lastOp.arg > prev.numBytesLeft)
  /\ \A i \in 1..Len(blocks) :
       blocks[i].length >= 0 => blocks[i].sunk <= blocks[i].length

\* NewBlock(align, len(data)) followed, if it succeeded, by Append(data).
NewBlockThenAppend(x, data, align, io) ==
  LET a == NewBlock(x, align, Len(data), io)
  IN  IF a.ret # Nil THEN a ELSE AppendData(a, data, io)

\* What C9 compares of two writers.
Outcome(x) ==
  [ret |-> x.ret, sink |-> x.sink, numBytesWritten |-> x.numBytesWritten,
   numBytesLeft |-> x.numBytesLeft, err |-> x.err]

\* C9: in every writer state, for every data, align and sink behaviour,
\* Write returns the error and leaves the sink, numBytesWritten, numBytesLeft
\* and w.err that NewBlock followed (if it succeeded) by Append does; and
\* byteblock.go's Write, given the same calls, has emitted the same bytes as
\* long as w was only ever given Writes.
C9_WriteIsNewBlockAppend ==
  /\ \A data \in Payloads, align \in Aligns, io \in SinkScripts :
       Outcome(Write(Start(w), data, align, io))
         = Outcome(NewBlockThenAppend(Start(w), data, align, io))
  /\ onlyWrite =>
       /\ mono.sink = w.sink
       /\ mono.numBytesWritten = w.numBytesWritten
       /\ mono.err = w.err

C9_Witness ==
  /\ onlyWrite /\ Len(blocks) = 2
  /\ lastOp.op = "Write" /\ lastOp.ret = "short write" /\ lastOp.calls = 4
  /\ blocks[2].align = 3 /\ blocks[2].sunk = 1
  /\ mono.sink = w.sink /\ Len(w.sink) > 32 /\ w.numBytesLeft = 1

\* Whether lastOp is a Write that succeeded.
Written == lastOp.op \in {"Write", "WriteString"} /\ lastOp.ret = Nil

\* C11: a Write that succeeds on a writer whose byte count is p appends to
\* the sink the 8 bytes of len(data), the 8 bytes of
\* off = (align - (p + 16) mod align) mod align (0 for align <= 1), off zero
\* bytes and data, and nothing else; and in a stream of successful Writes
\* each header begins where the payload before it ends.
C11_FrameLayout ==
  /\ Written =>
       LET p == prev.numBytesWritten
           off == PadTo(Last.align, p + 16)
       IN  /\ Len(Last.data) = lastOp.arg
           /\ Taken(prev, w) = fillInt64(Int64(lastOp.arg)) \o fillInt64(Int64(off))
                                 \o [i \in 1..off |-> 0] \o Last.data
           /\ Len(w.sink) = Len(prev.sink) + 16 + off + lastOp.arg
           /\ Last.hdr = Len(prev.sink)
           /\ Last.start = Last.hdr + 16 + off
  /\ (onlyWrite /\ w.err = Nil) =>
       \A i \in 1..Len(blocks) :
         blocks[i].hdr = IF i = 1 THEN 0 ELSE EndOf(i - 1)

C11_Witness ==
  /\ Written /\ onlyWrite /\ Len(blocks) = 2
  /\ prev.numBytesWritten = 17
  /\ Last.align = 8 /\ Last.data = <<66, 67>>
  /\ Taken(prev, w) = <<2, 0, 0, 0, 0, 0, 0, 0, 7, 0, 0, 0, 0, 0, 0, 0,
                        0, 0, 0, 0, 0, 0, 0, 66, 67>>

\* What numBytesLeft is to be: the declared length of the block opened last
\* less the payload bytes the sink took for it; 0 before any block.
LeftOfLast == IF blocks = <<>> THEN 0 ELSE Last.length - Last.sunk

\* C15: between writer operations numBytesLeft is never negative and is the
\* declared length of the open block less the payload bytes appended to it
\* (0 when no block is open), whatever error is latched; header and padding
\* bytes are not counted against it.
C15_LeftCounter ==
  /\ w.numBytesLeft >= 0
  /\ w.numBytesLeft = LeftOfLast

\* The part of C15 that the code keeps: while no error is latched the
\* counter is the declared length less the payload appended, and it is not
\* negative unless a negative length was declared.
C15_WhileNoError ==
  w.err = Nil =>
    /\ w.numBytesLeft = LeftOfLast
    /\ (\A i \in 1..Len(blocks) : blocks[i].length >= 0) => w.numBytesLeft >= 0

\* C15 with the blocks of negative declared length left aside: the counter
\* is still wrong, after a NewBlock whose sink write failed.
C15_DeclaredNonNegative ==
  (\A i \in 1..Len(blocks) : blocks[i].length >= 0) /\ lastOp.arg >= 0 =>
    C15_LeftCounter

\* C16: numBytesWritten is the number of bytes the sink has taken from the
\* writer since it was constructed, the bytes taken by a Write that failed
\* included; each operation adds to it what the sink took during it.
C16_BytesWritten ==
  /\ w.numBytesWritten = Len(w.sink)
  /\ w.numBytesWritten - prev.numBytesWritten = Len(Taken(prev, w))
  /\ mono.numBytesWritten = Len(mono.sink)

C16_Witness ==
  /\ lastOp.op = "NewBlock" /\ lastOp.ret = "short write" /\ lastOp.calls = 2
  /\ prev.numBytesWritten = 17
  /\ w.numBytesWritten = 26 /\ Len(w.sink) = 26

\* C20: a NewBlock that returns ErrNewBlockBeforeFinish and an Append that
\* returns ErrWriteMoreThanRequested call the sink not once and leave the
\* sink, numBytesWritten, numBytesLeft and the stub as they were; the error
\* is latched.
C20_RejectedNoEffect ==
  ( \/ lastOp.op = "NewBlock" /\ lastOp.ret = ErrNewBlockBeforeFinish
    \/ lastOp.op \in {"Append", "AppendString"} /\ lastOp.ret = ErrWriteMoreThanRequested ) =>
    /\ lastOp.calls = 0
    /\ w.sink = prev.sink
    /\ w.numBytesWritten = prev.numBytesWritten
    /\ w.numBytesLeft = prev.numBytesLeft
    /\ w.stub = prev.stub
    /\ w.err = lastOp.ret

C20_Witness ==
  /\ lastOp.op = "Append" /\ lastOp.ret = ErrWriteMoreThanRequested
  /\ prev.err = Nil /\ prev.numBytesLeft = 1 /\ lastOp.arg = 2
  /\ Len(w.sink) = 17 /\ w.err = ErrWriteMoreThanRequested

\* The same for NewBlock: rejected with one byte of the block still to come.
C20_WitnessNewBlock ==
  /\ lastOp.op = "NewBlock" /\ lastOp.ret = ErrNewBlockBeforeFinish
  /\ prev.err = Nil /\ prev.numBytesLeft = 1
  /\ Len(w.sink) = 17 /\ w.numBytesLeft = 1

====
